---------------------------- MODULE Spec2Model ----------------------------
(***************************************************************************)
(* The chess environment of src/src/environment/chess_env.py (ChessEnv):   *)
(* the move tables, the board encoder, the reward terms and the step/reset *)
(* state machine, over a model of the rules engine (python-chess Board)    *)
(* that ChessEnv drives.                                                   *)
(*                                                                         *)
(* Rewards are integers in units of 1/390 (390 = 10 * 39), so that the     *)
(* tenths of the reward terms and the 39ths of the material balance are    *)
(* both exact: 0.1 is 39, 0.5 is 195, 1 is 390, 1/39 is 10.                *)
(***************************************************************************)
EXTENDS Integers, Sequences, FiniteSets, TLC

(***************************************************************************)
(* Squares, pieces and moves of the rules engine.                          *)
(***************************************************************************)

\* chess.SQUARES: a1 = 0, b1 = 1, ..., h1 = 7, a2 = 8, ..., h8 = 63
SQUARES == 0 .. 63

\* chess.WHITE is True, chess.BLACK is False
WHITE == TRUE

BLACK == FALSE

\* chess.PAWN; the other piece types are 2 knight, 3 bishop, 4 rook, 5 queen, 6 king
PAWN == 1

square_file(s) == s % 8

square_rank(s) == s \div 8

\* chess.square(file_index, rank_index)
square(f, r) == r * 8 + f

Abs(x) == IF x < 0 THEN -x ELSE x

Sgn(x) == IF x < 0 THEN -1 ELSE IF x > 0 THEN 1 ELSE 0

Max(x, y) == IF x >= y THEN x ELSE y

\* board.piece_at(square) of an empty square
None == [piece_type |-> 0, color |-> FALSE]

Piece(pt, c) == [piece_type |-> pt, color |-> c]

\* ep_square of a position with no en passant square
NoSquare == 0 - 1

\* chess.Move(from_square, to_square): promotion and drop are None
Move(f, t) == [from_square |-> f, to_square |-> t]

\* chess.Piece.symbol(): the piece letter, upper case for white
symbol(p) ==
    IF p.color
    THEN <<"P", "N", "B", "R", "Q", "K">>[p.piece_type]
    ELSE <<"p", "n", "b", "r", "q", "k">>[p.piece_type]

\* str.lower() of a piece symbol
lower(sym) ==
    CASE sym \in {"P", "p"} -> "p"
      [] sym \in {"N", "n"} -> "n"
      [] sym \in {"B", "b"} -> "b"
      [] sym \in {"R", "r"} -> "r"
      [] sym \in {"Q", "q"} -> "q"
      [] sym \in {"K", "k"} -> "k"

(***************************************************************************)
(* The rules engine: chess.Board.  pieces maps every square to its piece   *)
(* (None when empty); castling_rights is the set of rook squares that may  *)
(* still castle; ep_square is set by every double pawn push.               *)
(***************************************************************************)

BackRank(c) ==
    [f \in 0 .. 7 |-> Piece(<<4, 2, 3, 5, 6, 3, 2, 4>>[f + 1], c)]

\* chess.Board(): the standard starting position
StartPieces ==
    [s \in SQUARES |->
        CASE square_rank(s) = 0 -> BackRank(WHITE)[square_file(s)]
          [] square_rank(s) = 1 -> Piece(PAWN, WHITE)
          [] square_rank(s) = 6 -> Piece(PAWN, BLACK)
          [] square_rank(s) = 7 -> BackRank(BLACK)[square_file(s)]
          [] OTHER -> None]

StartBoard ==
    [pieces |-> StartPieces,
     turn |-> WHITE,
     castling_rights |-> {square(0, 0), square(7, 0), square(0, 7), square(7, 7)},
     ep_square |-> NoSquare,
     halfmove_clock |-> 0,
     fullmove_number |-> 1,
     move_stack |-> <<>>]

\* the squares strictly between two squares of one rank, file or diagonal
Between(f, t) ==
    LET df == square_file(t) - square_file(f)
        dr == square_rank(t) - square_rank(f)
        n == Max(Abs(df), Abs(dr))
    IN  {f + k * (Sgn(df) + 8 * Sgn(dr)) : k \in 1 .. (n - 1)}

Clear(P, f, t) == \A s \in Between(f, t) : P[s].piece_type = 0

\* the piece on f attacks square t (chess.Board.attacks_mask)
Attacks(P, f, t) ==
    LET p == P[f]
        df == square_file(t) - square_file(f)
        dr == square_rank(t) - square_rank(f)
    IN  /\ f # t
        /\ CASE p.piece_type = 1 ->
                    /\ Abs(df) = 1
                    /\ dr = (IF p.color THEN 1 ELSE 0 - 1)
             [] p.piece_type = 2 ->
                    \/ Abs(df) = 1 /\ Abs(dr) = 2
                    \/ Abs(df) = 2 /\ Abs(dr) = 1
             [] p.piece_type = 3 ->
                    Abs(df) = Abs(dr) /\ Clear(P, f, t)
             [] p.piece_type = 4 ->
                    (df = 0 \/ dr = 0) /\ Clear(P, f, t)
             [] p.piece_type = 5 ->
                    (df = 0 \/ dr = 0 \/ Abs(df) = Abs(dr)) /\ Clear(P, f, t)
             [] p.piece_type = 6 ->
                    Abs(df) <= 1 /\ Abs(dr) <= 1
             [] OTHER -> FALSE

\* chess.Board.is_attacked_by(color, square)
is_attacked_by(P, color, sq) ==
    \E s \in SQUARES :
        /\ P[s].piece_type # 0
        /\ P[s].color = color
        /\ Attacks(P, s, sq)

\* chess.Board.king(color): the king's square, NoSquare when there is none
king(P, color) ==
    IF \E s \in SQUARES : P[s] = Piece(6, color)
    THEN CHOOSE s \in SQUARES : P[s] = Piece(6, color)
    ELSE NoSquare

\* a pawn move from f to t that the pawn on f can make, promotion aside
PawnMove(b, f, t) ==
    LET P == b.pieces
        dir == IF b.turn THEN 1 ELSE 0 - 1
        df == square_file(t) - square_file(f)
        dr == square_rank(t) - square_rank(f)
    IN  \/ /\ df = 0
           /\ dr = dir
           /\ P[t].piece_type = 0
        \/ /\ df = 0
           /\ dr = 2 * dir
           /\ square_rank(f) = (IF b.turn THEN 1 ELSE 6)
           /\ P[t].piece_type = 0
           /\ P[f + 8 * dir].piece_type = 0
        \/ /\ Abs(df) = 1
           /\ dr = dir
           /\ \/ P[t].piece_type # 0 /\ P[t].color # b.turn
              \/ P[t].piece_type = 0 /\ t = b.ep_square

\* chess.Board.is_en_passant(move)
is_en_passant(b, m) ==
    /\ b.ep_square = m.to_square
    /\ b.pieces[m.from_square].piece_type = PAWN
    /\ Abs(m.to_square - m.from_square) \in {7, 9}
    /\ b.pieces[m.to_square].piece_type = 0

\* the pieces after the side to move has moved its piece from f to t
\* (no castling, no promotion); an en passant capture removes the pawn passed
MovedPieces(b, f, t) ==
    LET P == b.pieces
        ep == /\ P[f].piece_type = PAWN
              /\ square_file(f) # square_file(t)
              /\ P[t].piece_type = 0
        Q == [P EXCEPT ![t] = P[f], ![f] = None]
    IN  IF ep THEN [Q EXCEPT ![square(square_file(t), square_rank(f))] = None]
        ELSE Q

\* from f to t is the from and to square of a pseudo-legal move that is not
\* castling (chess.Board.is_pseudo_legal, whatever the promotion)
PseudoLegal(b, f, t) ==
    LET P == b.pieces
    IN  /\ P[f].piece_type # 0
        /\ P[f].color = b.turn
        /\ ~(P[t].piece_type # 0 /\ P[t].color = b.turn)
        /\ IF P[f].piece_type = PAWN THEN PawnMove(b, f, t)
           ELSE Attacks(P, f, t)

\* chess.Board.is_into_check(move), for a move that is not castling
is_into_check(b, f, t) ==
    LET Q == MovedPieces(b, f, t)
    IN  is_attacked_by(Q, ~b.turn, king(Q, b.turn))

\* some legal move goes from f to t (castling aside)
LegalFromTo(b, f, t) ==
    /\ PseudoLegal(b, f, t)
    /\ ~is_into_check(b, f, t)

\* any(board.legal_moves): castling is never the only legal move
AnyLegalMove(b) ==
    \E f \in {s \in SQUARES : b.pieces[s].piece_type # 0 /\ b.pieces[s].color = b.turn} :
        \E t \in SQUARES : LegalFromTo(b, f, t)

\* chess.Board.is_check()
is_check(b) == is_attacked_by(b.pieces, ~b.turn, king(b.pieces, b.turn))

\* chess.Board.is_checkmate()
is_checkmate(b) == is_check(b) /\ ~AnyLegalMove(b)

\* chess.Board.is_stalemate()
is_stalemate(b) == ~is_check(b) /\ ~AnyLegalMove(b)

\* chess.Board.clean_castling_rights(): a right needs its rook on the corner
\* and the king of that colour on its starting square
clean_castling_rights(b) ==
    {r \in b.castling_rights :
        LET c == (square_rank(r) = 0)
        IN  /\ r \in {square(0, 0), square(7, 0), square(0, 7), square(7, 7)}
            /\ b.pieces[r] = Piece(4, c)
            /\ b.pieces[square(4, square_rank(r))] = Piece(6, c)}

\* chess.Board._from_chess960 in standard chess: the king taking its own
\* rook on the corner is read as castling to the g or c file
from_chess960(b, m) ==
    IF /\ m.from_square \in {square(4, 0), square(4, 7)}
       /\ b.pieces[m.from_square].piece_type = 6
       /\ square_rank(m.to_square) = square_rank(m.from_square)
       /\ square_file(m.to_square) \in {0, 7}
    THEN Move(m.from_square,
              square(IF square_file(m.to_square) = 7 THEN 6 ELSE 2,
                     square_rank(m.from_square)))
    ELSE m

\* chess.Board.generate_castling_moves(): the castling moves of the side to
\* move, each as the king's move to the g or c file
generate_castling_moves(b) ==
    LET P == b.pieces
        r0 == IF b.turn THEN 0 ELSE 7
        k == square(4, r0)
        NoKing == [P EXCEPT ![k] = None]
        Can(rook, king_to, rook_to, empty) ==
            /\ rook \in clean_castling_rights(b)
            /\ \A s \in empty : P[s].piece_type = 0
            /\ \A s \in (Between(k, king_to) \cup {k}) :
                   ~is_attacked_by(NoKing, ~b.turn, s)
            /\ ~is_attacked_by([NoKing EXCEPT ![rook] = None, ![rook_to] = P[rook]],
                               ~b.turn, king_to)
    IN  IF P[k] # Piece(6, b.turn) THEN {}
        ELSE {Move(k, square(6, r0)) :
                  x \in {y \in {1} : Can(square(7, r0), square(6, r0), square(5, r0),
                                         {square(5, r0), square(6, r0)})}}
             \cup
             {Move(k, square(2, r0)) :
                  x \in {y \in {1} : Can(square(0, r0), square(2, r0), square(3, r0),
                                         {square(1, r0), square(2, r0), square(3, r0)})}}

\* move in board.legal_moves, for a move of the table (promotion None):
\* chess.Board.is_legal(move).  A pawn reaches the last rank only by a
\* promotion move, which the table does not hold.
is_legal(b, m) ==
    LET f == m.from_square
        t == m.to_square
        P == b.pieces
    IN  /\ ~(f = 0 /\ t = 0)
        /\ P[f].piece_type # 0
        /\ P[f].color = b.turn
        /\ \/ /\ P[f].piece_type = 6
              /\ from_chess960(b, m) \in generate_castling_moves(b)
           \/ /\ LegalFromTo(b, f, t)
              /\ ~(P[f].piece_type = PAWN /\ square_rank(t) \in {0, 7})

\* the move pushed is castling (chess.Board.is_castling)
is_castling(b, m) ==
    /\ b.pieces[m.from_square].piece_type = 6
    /\ \/ Abs(square_file(m.to_square) - square_file(m.from_square)) > 1
       \/ b.pieces[m.to_square] = Piece(4, b.turn)

\* chess.Board.push(move), for a legal move of the table
push(b, m) ==
    LET P == b.pieces
        g == from_chess960(b, m)
        f == g.from_square
        t == g.to_square
        castling == is_castling(b, m)
        r0 == square_rank(f)
        a_side == square_file(t) < square_file(f)
        Q == IF castling
             THEN [P EXCEPT ![f] = None,
                            ![square(IF a_side THEN 0 ELSE 7, r0)] = None,
                            ![square(IF a_side THEN 2 ELSE 6, r0)] = P[f],
                            ![square(IF a_side THEN 3 ELSE 5, r0)] = Piece(4, b.turn)]
             ELSE MovedPieces(b, f, t)
        zeroing == P[f].piece_type = PAWN \/ (~castling /\ P[t].piece_type # 0)
        rights == (clean_castling_rights(b) \ {m.from_square, m.to_square, f, t})
                  \ (IF P[f].piece_type = 6
                     THEN {square(0, r0), square(7, r0)}
                     ELSE {})
        ep == IF P[f].piece_type = PAWN /\ Abs(t - f) = 16
              THEN (f + t) \div 2
              ELSE NoSquare
    IN  [pieces |-> Q,
         turn |-> ~b.turn,
         castling_rights |-> rights,
         ep_square |-> ep,
         halfmove_clock |-> IF zeroing THEN 0 ELSE b.halfmove_clock + 1,
         fullmove_number |-> IF b.turn = BLACK THEN b.fullmove_number + 1
                             ELSE b.fullmove_number,
         move_stack |-> Append(b.move_stack, g)]

\* chess.Board.is_capture(move): the move touches a piece of the side not to
\* move, or is an en passant capture
is_capture(b, m) ==
    \/ \E s \in {m.from_square, m.to_square} \ ({m.from_square} \cap {m.to_square}) :
           b.pieces[s].piece_type # 0 /\ b.pieces[s].color = ~b.turn
    \/ is_en_passant(b, m)

\* chess.Board.has_insufficient_material(color)
has_insufficient_material(b, color) ==
    LET P == b.pieces
        Own(pts) == {s \in SQUARES : P[s].piece_type \in pts /\ P[s].color = color}
        All(pts) == {s \in SQUARES : P[s].piece_type \in pts}
        Dark(s) == (square_file(s) + square_rank(s)) % 2 = 0
    IN  IF Own({1, 4, 5}) # {} THEN FALSE
        ELSE IF Own({2}) # {}
        THEN /\ Cardinality(Own({1, 2, 3, 4, 5, 6})) <= 2
             /\ {s \in All({1, 2, 3, 4}) : P[s].color # color} = {}
        ELSE IF Own({3}) # {}
        THEN /\ \/ \A s \in All({3}) : ~Dark(s)
                \/ \A s \in All({3}) : Dark(s)
             /\ All({1, 2}) = {}
        ELSE TRUE

\* chess.Board.is_insufficient_material()
is_insufficient_material(b) ==
    has_insufficient_material(b, WHITE) /\ has_insufficient_material(b, BLACK)

\* chess.Board.has_legal_en_passant()
has_legal_en_passant(b) ==
    /\ b.ep_square # NoSquare
    /\ \E f \in SQUARES :
           /\ b.pieces[f] = Piece(PAWN, b.turn)
           /\ square_file(f) # square_file(b.ep_square)
           /\ LegalFromTo(b, f, b.ep_square)

\* chess.Board._transposition_key()
transposition_key(b) ==
    [pieces |-> b.pieces,
     turn |-> b.turn,
     castling_rights |-> clean_castling_rights(b),
     ep_square |-> IF has_legal_en_passant(b) THEN b.ep_square ELSE NoSquare]

\* the positions the game has gone through: the move stack replayed from the
\* starting position (chess.Board.pop() on the way back through the stack)
RECURSIVE Replay(_, _, _)
Replay(b, stack, i) ==
    IF i > Len(stack) THEN <<>>
    ELSE <<b>> \o Replay(push(b, stack[i]), stack, i + 1)

\* chess.Board.is_fivefold_repetition(): the position has occurred four
\* times before
is_fivefold_repetition(b) ==
    /\ b.halfmove_clock >= 8
    /\ LET past == Replay(StartBoard, b.move_stack, 1)
           key == transposition_key(b)
       IN  Cardinality({i \in DOMAIN past : transposition_key(past[i]) = key}) >= 4

\* chess.Board.is_seventyfive_moves()
is_seventyfive_moves(b) == b.halfmove_clock >= 150 /\ AnyLegalMove(b)

\* chess.Board.is_game_over(): claim_draw is False
is_game_over(b) ==
    \/ is_checkmate(b)
    \/ is_insufficient_material(b)
    \/ ~AnyLegalMove(b)
    \/ is_seventyfive_moves(b)
    \/ is_fivefold_repetition(b)

\* chess.Board.result() of a game that is over
result(b) ==
    IF is_checkmate(b)
    THEN (IF b.turn = WHITE THEN "0-1" ELSE "1-0")
    ELSE "1/2-1/2"

\* board.piece_at(square) as the engine indexes its table of 64 square masks:
\* -64 .. -1 count from the end of the table, any other index outside 0 .. 63
\* raises IndexError
InTable(sq) == sq \in (0 - 64) .. 63

piece_at(b, sq) ==
    IF sq \in SQUARES THEN b.pieces[sq] ELSE b.pieces[sq + 64]

(***************************************************************************)
(* ChessEnv: the move tables and the board encoder.                        *)
(***************************************************************************)

\* ChessEnv.map_pieces
map_pieces ==
    [sym \in {"P", "N", "B", "R", "Q", "K", "p", "n", "b", "r", "q", "k"} |->
        CASE sym = "P" -> 1
          [] sym = "N" -> 2
          [] sym = "B" -> 3
          [] sym = "R" -> 4
          [] sym = "Q" -> 5
          [] sym = "K" -> 6
          [] sym = "p" -> 0 - 1
          [] sym = "n" -> 0 - 2
          [] sym = "b" -> 0 - 3
          [] sym = "r" -> 0 - 4
          [] sym = "q" -> 0 - 5
          [] sym = "k" -> 0 - 6]

\* len(chess.SQUARES)
NumSquares == Cardinality(SQUARES)

\* a variant of generate_all_moves whose loops are nested the other way
\* round, to_square in the outer loop
generate_all_moves_ToOuter ==
    <<>> \o [i \in 1 .. (NumSquares * NumSquares) |->
                LET to_square == (i - 1) \div NumSquares
                    from_square == (i - 1) % NumSquares
                IN  Move(from_square, to_square)]

\* ChessEnv.generate_all_moves: moves = [] and what the two nested loops over
\* chess.SQUARES append to it, from_square in the outer loop and to_square in
\* the inner one; element i + 1 here is element i of the Python list
generate_all_moves ==
    <<>> \o [i \in 1 .. (NumSquares * NumSquares) |->
                LET from_square == (i - 1) \div NumSquares
                    to_square == (i - 1) % NumSquares
                IN  Move(from_square, to_square)]

\* ChessEnv.get_move_to_action: enumerate(all_possible_moves), a move keeping
\* the first index it is met at
get_move_to_action(all_possible_moves) ==
    [move \in {all_possible_moves[i] : i \in DOMAIN all_possible_moves} |->
        (CHOOSE i \in DOMAIN all_possible_moves :
            /\ all_possible_moves[i] = move
            /\ \A j \in 1 .. (i - 1) : all_possible_moves[j] # move) - 1]

\* ChessEnv.get_action_to_move: the items of move_to_action turned around
get_action_to_move(mta) ==
    LET items == {<<move, mta[move]>> : move \in DOMAIN mta}
    IN  [action \in {it[2] : it \in items} |->
            (CHOOSE it \in items : it[2] = action)[1]]

\* np.zeros((8,8))
zeros == [r \in 0 .. 7 |-> [c \in 0 .. 7 |-> 0]]

\* the loop of get_observation over board.piece_map().items()
RECURSIVE ObservationLoop(_, _, _)
ObservationLoop(b, todo, observation) ==
    IF todo = {} THEN observation
    ELSE LET sq == CHOOSE s \in todo : TRUE
             row == square_rank(sq)
             col == square_file(sq)
         IN  ObservationLoop(b, todo \ {sq},
                 [observation EXCEPT ![7 - row][col] = map_pieces[symbol(b.pieces[sq])]])

\* chess.Board.piece_map(): the occupied squares
piece_map(b) == {s \in SQUARES : b.pieces[s].piece_type # 0}

\* a variant of get_observation that writes rank r into row r
get_observation_Unflipped(b) ==
    LET observation == ObservationLoop(b, piece_map(b), zeros)
    IN  [r \in 0 .. 7 |-> [c \in 0 .. 7 |-> observation[7 - r][c]]]

\* ChessEnv.get_observation
get_observation(b) == ObservationLoop(b, piece_map(b), zeros)

(***************************************************************************)
(* ChessEnv: the reward terms.  Each is called by step after the move has  *)
(* been pushed and current_player flipped; cp is self.current_player and b *)
(* is self.board at the time of the call.  A term that can raise returns   *)
(* [exception, value], exception being "" when it returns normally.        *)
(***************************************************************************)

Returns(v) == [exception |-> "", value |-> v]

Raises(e) == [exception |-> e, value |-> 0]

\* piece_values of reward_for_capture, in 390ths
capture_values(sym) ==
    CASE sym = "p" -> 39
      [] sym = "n" -> 117
      [] sym = "b" -> 117
      [] sym = "r" -> 195
      [] sym = "q" -> 351
      [] sym = "k" -> 0

\* ChessEnv.reward_for_capture(move, previous_board): captured_piece is None
\* when the to-square was empty, and None.symbol() raises AttributeError
reward_for_capture(b, cp, move, previous_board) ==
    IF is_capture(b, move)
    THEN LET captured_piece == previous_board.pieces[move.to_square]
         IN  IF captured_piece = None THEN Raises("AttributeError")
             ELSE IF captured_piece.color # cp
             THEN Returns(capture_values(lower(symbol(captured_piece))))
             ELSE Returns(0)
    ELSE Returns(0)

\* ChessEnv.reward_for_check
reward_for_check(b) == IF is_check(b) THEN 195 ELSE 0

\* piece_values of calculate_material_balance
material_values(sym) ==
    CASE sym = "p" -> 1
      [] sym = "n" -> 3
      [] sym = "b" -> 3
      [] sym = "r" -> 5
      [] sym = "q" -> 9
      [] sym = "k" -> 0

\* the loop of calculate_material_balance over the pieces on a set of squares
RECURSIVE MaterialSum(_, _)
MaterialSum(board, S) ==
    IF S = {} THEN 0
    ELSE LET s == CHOOSE x \in S : TRUE
         IN  material_values(lower(symbol(board.pieces[s])))
             + MaterialSum(board, S \ {s})

\* ChessEnv.calculate_material_balance(board): (agent - opponent) / 39, in
\* 390ths
calculate_material_balance(board, cp) ==
    LET agent_balance ==
            MaterialSum(board, {s \in piece_map(board) : board.pieces[s].color = cp})
        opponent_balance ==
            MaterialSum(board, {s \in piece_map(board) : board.pieces[s].color # cp})
    IN  10 * (agent_balance - opponent_balance)

\* central_squares of calculate_central_control: files c to f, ranks 3 to 6
central_squares == {square(f, r) : f \in 2 .. 5, r \in 2 .. 5}

\* ChessEnv.calculate_central_control(board): 0.1 a piece, in 390ths
calculate_central_control(board, cp) ==
    39 * Cardinality({s \in central_squares :
                         board.pieces[s].piece_type # 0 /\ board.pieces[s].color = cp})

\* ChessEnv.calculate_king_safety(board), in 390ths.  The three squares in
\* front of the king are chess.square(king_file + offset, king_rank +- 1),
\* which is rank * 8 + file whatever the file and rank, and board.piece_at
\* indexes the engine's table with it.
calculate_king_safety(board, cp) ==
    LET agent_king_square == king(board.pieces, cp)
        king_file == square_file(agent_king_square)
        king_rank == square_rank(agent_king_square)
        is_pawn_in_file ==
            \E s \in piece_map(board) :
                /\ square_file(s) = king_file
                /\ board.pieces[s].piece_type = PAWN
                /\ board.pieces[s].color = cp
        front(offset) ==
            IF cp THEN square(king_file + offset, king_rank + 1)
            ELSE square(king_file + offset, king_rank - 1)
        pawns == {offset \in {0 - 1, 0, 1} :
                     piece_at(board, front(offset)).piece_type = PAWN}
    IN  IF agent_king_square = NoSquare THEN Returns(0)
        ELSE IF \E offset \in {0 - 1, 0, 1} : ~InTable(front(offset))
        THEN Raises("IndexError")
        ELSE Returns((IF is_pawn_in_file THEN 0 ELSE 0 - 195)
                     + 78 * Cardinality(pawns))

\* ChessEnv.reward_for_position(previous_board): the total and the three
\* deltas it is the sum of
reward_for_position(b, cp, previous_board) ==
    LET material_balance == calculate_material_balance(b, cp)
                            - calculate_material_balance(previous_board, cp)
        positional_reward == calculate_central_control(b, cp)
                             - calculate_central_control(previous_board, cp)
        previous_king_safety == calculate_king_safety(previous_board, cp)
        current_king_safety == calculate_king_safety(b, cp)
        king_safety_reward == current_king_safety.value - previous_king_safety.value
        raised(e) == [exception |-> e, value |-> 0, material |-> 0, central |-> 0,
                      king_safety |-> 0]
    IN  IF previous_king_safety.exception # ""
        THEN raised(previous_king_safety.exception)
        ELSE IF current_king_safety.exception # ""
        THEN raised(current_king_safety.exception)
        ELSE [exception |-> "",
              value |-> material_balance + positional_reward + king_safety_reward,
              material |-> material_balance,
              central |-> positional_reward,
              king_safety |-> king_safety_reward]

\* the term compute_reward adds for the end of the game, in 390ths
terminal_reward(b, cp) ==
    IF is_checkmate(b)
    THEN (IF b.turn # cp THEN 390 ELSE 0 - 390)
    ELSE IF is_stalemate(b) \/ is_insufficient_material(b) THEN 195
    ELSE 0

\* ChessEnv.compute_reward(move, previous_board): the total and its terms
compute_reward(b, cp, move, previous_board) ==
    LET capture_reward == reward_for_capture(b, cp, move, previous_board)
        check_reward == reward_for_check(b)
        position_reward == reward_for_position(b, cp, previous_board)
        terminal == terminal_reward(b, cp)
        absent == [exception |-> "", value |-> 0, terminal |-> 0, capture |-> 0,
                   check |-> 0, position |-> 0, material |-> 0, central |-> 0,
                   king_safety |-> 0]
    IN  IF capture_reward.exception # ""
        THEN [absent EXCEPT !.exception = capture_reward.exception]
        ELSE IF position_reward.exception # ""
        THEN [absent EXCEPT !.exception = position_reward.exception]
        ELSE [exception |-> "",
              value |-> terminal + capture_reward.value + check_reward
                        + position_reward.value,
              terminal |-> terminal,
              capture |-> capture_reward.value,
              check |-> check_reward,
              position |-> position_reward.value,
              material |-> position_reward.material,
              central |-> position_reward.central,
              king_safety |-> position_reward.king_safety]

(***************************************************************************)
(* ChessEnv: step and reset.  What a call hands back is a record: kind is  *)
(* "return" or "raise"; a raise carries only the exception's name.         *)
(***************************************************************************)

NoInfo ==
    [reason |-> "", draw_reason |-> "", illegal_moves |-> 0,
     total_moves_made |-> 0, in_check |-> FALSE, winner |-> "",
     starting_player |-> ""]

NoTerms ==
    [terminal |-> 0, capture |-> 0, check |-> 0, position |-> 0, material |-> 0,
     central |-> 0, king_safety |-> 0]

NoResult ==
    [kind |-> "none", exception |-> "", observation |-> zeros, reward |-> 0,
     terminated |-> FALSE, truncated |-> FALSE, info |-> NoInfo, terms |-> NoTerms]

Raise(e) == [NoResult EXCEPT !.kind = "raise", !.exception = e]

Return(observation, reward, terminated, info, terms) ==
    [kind |-> "return", exception |-> "", observation |-> observation,
     reward |-> reward, terminated |-> terminated, truncated |-> FALSE,
     info |-> info, terms |-> terms]

\* illegal_move_penalty of step: -0.1, in 390ths
illegal_move_penalty == 0 - 39

\* a variant of the threshold that does not grow with the game
threshold_Fixed(b) == Max(5, 0 * b.fullmove_number)

\* threshold = max(5, self.board.fullmove_number // 2)
threshold(b) == Max(5, b.fullmove_number \div 2)

\* the metadata every info dictionary of step carries
StepInfo(b, count) ==
    [NoInfo EXCEPT !.illegal_moves = count,
                   !.total_moves_made = b.fullmove_number,
                   !.in_check = is_check(b)]

\* step: the draw short-circuit
StepDraw(b, cp, count) ==
    [board |-> b, current_player |-> cp, illegal_moves_count |-> count,
     ret |-> Return(get_observation(b), 195, TRUE,
                    [StepInfo(b, count) EXCEPT
                        !.reason = "draw",
                        !.draw_reason = IF is_stalemate(b) THEN "stalemate"
                                        ELSE "insufficient_material"],
                    NoTerms)]

\* step: too many illegal moves
StepThreshold(b, cp, count) ==
    [board |-> b, current_player |-> cp, illegal_moves_count |-> count,
     ret |-> Return(get_observation(b), 0 - 390, TRUE,
                    [StepInfo(b, count) EXCEPT !.reason = "too many illegal moves"],
                    NoTerms)]

\* a variant of the illegal-move branch that forgets to count
StepIllegal_Uncounted(b, cp, count) ==
    [board |-> b, current_player |-> cp, illegal_moves_count |-> count,
     ret |-> Return(get_observation(b), 0 - 39, FALSE,
                    [StepInfo(b, count) EXCEPT !.reason = "illegal move"],
                    NoTerms)]

\* step: the move is not in board.legal_moves; info is built before the
\* counter is incremented
StepIllegal(b, cp, count) ==
    [board |-> b, current_player |-> cp, illegal_moves_count |-> count + 1,
     ret |-> Return(get_observation(b), illegal_move_penalty, FALSE,
                    [StepInfo(b, count) EXCEPT !.reason = "illegal move"],
                    NoTerms)]

\* a variant of the legal-move branch that pushes the move and leaves
\* current_player as it was
StepLegal_NoFlip(b, cp, count, move) ==
    LET previous_board == b
        nb == push(b, move)
        ncp == cp
        reward == compute_reward(nb, ncp, move, previous_board)
        over == is_game_over(nb)
        winner == IF ~over THEN ""
                  ELSE IF result(nb) = "1-0" THEN "white"
                  ELSE IF result(nb) = "0-1" THEN "black"
                  ELSE "draw"
    IN  [board |-> nb, current_player |-> ncp, illegal_moves_count |-> count,
         ret |-> IF reward.exception # "" THEN Raise(reward.exception)
                 ELSE Return(get_observation(nb), reward.value, over,
                             [StepInfo(nb, count) EXCEPT !.winner = winner],
                             [terminal |-> reward.terminal,
                              capture |-> reward.capture,
                              check |-> reward.check,
                              position |-> reward.position,
                              material |-> reward.material,
                              central |-> reward.central,
                              king_safety |-> reward.king_safety])]

\* step: the move is legal: it is pushed, current_player flips, and the
\* reward is computed on the new board with the new current_player
StepLegal(b, cp, count, move) ==
    LET previous_board == b
        nb == push(b, move)
        ncp == ~cp
        reward == compute_reward(nb, ncp, move, previous_board)
        over == is_game_over(nb)
        winner == IF ~over THEN ""
                  ELSE IF result(nb) = "1-0" THEN "white"
                  ELSE IF result(nb) = "0-1" THEN "black"
                  ELSE "draw"
    IN  [board |-> nb, current_player |-> ncp, illegal_moves_count |-> count,
         ret |-> IF reward.exception # "" THEN Raise(reward.exception)
                 ELSE Return(get_observation(nb), reward.value, over,
                             [StepInfo(nb, count) EXCEPT !.winner = winner],
                             [terminal |-> reward.terminal,
                              capture |-> reward.capture,
                              check |-> reward.check,
                              position |-> reward.position,
                              material |-> reward.material,
                              central |-> reward.central,
                              king_safety |-> reward.king_safety])]

\* a variant of step after decoding that tests the threshold and the
\* legality of the move without looking for a draw first
StepDecoded_NoDraw(b, cp, count, move) ==
    IF count > threshold(b)
    THEN StepThreshold(b, cp, count)
    ELSE IF is_legal(b, move)
    THEN StepLegal(b, cp, count, move)
    ELSE StepIllegal(b, cp, count)

\* a variant of step that counts an index it cannot decode as an illegal move
\* before raising
step_Counted(b, cp, count, a2m, action) ==
    IF action \notin DOMAIN a2m
    THEN [board |-> b, current_player |-> cp, illegal_moves_count |-> count + 1,
          ret |-> Raise("ValueError")]
    ELSE IF is_stalemate(b) \/ is_insufficient_material(b)
    THEN StepDraw(b, cp, count)
    ELSE StepDecoded_NoDraw(b, cp, count, a2m[action])

\* step after the action is decoded: the draw short-circuit, the threshold,
\* then the legality of the move
StepDecoded(b, cp, count, move) ==
    IF is_stalemate(b) \/ is_insufficient_material(b)
    THEN StepDraw(b, cp, count)
    ELSE IF count > threshold(b)
    THEN StepThreshold(b, cp, count)
    ELSE IF is_legal(b, move)
    THEN StepLegal(b, cp, count, move)
    ELSE StepIllegal(b, cp, count)

\* ChessEnv.step(action): the fields of the environment after the call and
\* what the call hands back
step(b, cp, count, a2m, action) ==
    IF action \notin DOMAIN a2m
    THEN [board |-> b, current_player |-> cp, illegal_moves_count |-> count,
          ret |-> Raise("ValueError")]
    ELSE StepDecoded(b, cp, count, a2m[action])

\* chess.Board.reset()
board_reset == StartBoard

\* ChessEnv.reset(): illegal_moves_count is not assigned
reset(b, cp, count) ==
    LET nb == board_reset
    IN  [board |-> nb, current_player |-> TRUE, illegal_moves_count |-> count,
         ret |-> Return(get_observation(nb), 0, FALSE,
                        [NoInfo EXCEPT !.starting_player = "white"], NoTerms)]

(***************************************************************************)
(* The caller.  It plays the games of a repertoire, each a list of         *)
(* <<from_square, to_square>>, looking the moves up in move_to_action, and *)
(* at every position it may also submit a move that is not legal there, an *)
(* index that is not in the table, or call reset.                          *)
(***************************************************************************)

\* f2f3 e7e5 g2g4 d8h4
FoolsMate ==
    <<<<13, 21>>, <<52, 36>>, <<14, 30>>, <<59, 31>>>>

\* e2e4 e7e5 f1c4 b8c6 d1h5 g8f6 h5f7
ScholarsMate ==
    <<<<12, 28>>, <<52, 36>>, <<5, 26>>, <<57, 42>>, <<3, 39>>, <<62, 45>>,
      <<39, 53>>>>

\* e2e3 a7a5 d1h5 a8a6 h5a5 h7h5 h2h4 a6h6 a5c7 f7f6 c7d7 e8f7 d7b7 d8d3
\* b7b8 d3h7 b8c8 f7g6 c8e6
LoydStalemate ==
    <<<<12, 20>>, <<48, 32>>, <<3, 39>>, <<56, 40>>, <<39, 32>>,
      <<55, 39>>, <<15, 31>>, <<40, 47>>, <<32, 50>>, <<53, 45>>,
      <<50, 51>>, <<60, 53>>, <<51, 49>>, <<59, 19>>, <<49, 57>>,
      <<19, 55>>, <<57, 58>>, <<53, 46>>, <<58, 44>>>>

\* e2e4 a7a6 e4e5 d7d5 e5d6
EnPassant ==
    <<<<12, 28>>, <<48, 40>>, <<28, 36>>, <<51, 35>>, <<36, 43>>>>

\* e2e4 e7e5 g1f3 b8c6 f1c4 f8c5 e1g1
CastleKingside ==
    <<<<12, 28>>, <<52, 36>>, <<6, 21>>, <<57, 42>>, <<5, 26>>, <<61, 34>>,
      <<4, 6>>>>

\* e2e4 e7e5 g1f3 b8c6 f1c4 f8c5 e1h1
CastleKingTakesRook ==
    <<<<12, 28>>, <<52, 36>>, <<6, 21>>, <<57, 42>>, <<5, 26>>, <<61, 34>>,
      <<4, 7>>>>

\* e2e4 d7d5 e4d5 d8d5
PawnTakesPawn ==
    <<<<12, 28>>, <<51, 35>>, <<28, 35>>, <<59, 35>>>>

\* a2a3 c7c5 d2d4 c5d4 d1d4 e7e5 d4a7 f8a3 a7b8 a8b8 b1a3 h7h6 c1h6 g8h6
\* h2h4 g7g5 h4g5 d8g5 h1h6 g5g2 f1g2 h8h6 g2b7 c8b7 f2f3 b7f3 g1f3 b8b2
\* f3e5 b2c2 e5f7 c2e2 e1e2 e8f7 a1h1 h6h1 a3b5 h1d1 e2d1 d7d6 b5d6
KnightEnding ==
    <<<<8, 16>>, <<50, 34>>, <<11, 27>>, <<34, 27>>, <<3, 27>>, <<52, 36>>,
      <<27, 48>>, <<61, 16>>, <<48, 57>>, <<56, 57>>, <<1, 16>>,
      <<55, 47>>, <<2, 47>>, <<62, 47>>, <<15, 31>>, <<54, 38>>,
      <<31, 38>>, <<59, 38>>, <<7, 47>>, <<38, 14>>, <<5, 14>>, <<63, 47>>,
      <<14, 49>>, <<58, 49>>, <<13, 21>>, <<49, 21>>, <<6, 21>>, <<57, 9>>,
      <<21, 36>>, <<9, 10>>, <<36, 53>>, <<10, 12>>, <<4, 12>>, <<60, 53>>,
      <<0, 7>>, <<47, 7>>, <<16, 33>>, <<7, 3>>, <<12, 3>>, <<51, 43>>,
      <<33, 43>>>>

\* g1f3 g8f6 f3g1 f6g8 g1f3 g8f6 f3g1 f6g8 g1f3 g8f6 f3g1 f6g8 g1f3 g8f6
\* f3g1 f6g8 g1f3 g8f6 f3g1 f6g8 g1f3 g8f6 f3g1 f6g8
KnightShuffle ==
    <<<<6, 21>>, <<62, 45>>, <<21, 6>>, <<45, 62>>, <<6, 21>>, <<62, 45>>,
      <<21, 6>>, <<45, 62>>, <<6, 21>>, <<62, 45>>, <<21, 6>>, <<45, 62>>,
      <<6, 21>>, <<62, 45>>, <<21, 6>>, <<45, 62>>, <<6, 21>>, <<62, 45>>,
      <<21, 6>>, <<45, 62>>, <<6, 21>>, <<62, 45>>, <<21, 6>>, <<45, 62>>>>

\* e2e4 d7d5 e4d5 e7e6 d5e6 a7a6 e6f7
PawnBeforeKing ==
    <<<<12, 28>>, <<51, 35>>, <<28, 35>>, <<52, 44>>, <<35, 44>>,
      <<48, 40>>, <<44, 53>>>>

\* g2g3 a7a5 f1g2 a5a4 g1f3 a4a3 e1g1 h7h6 g1h1 a3b2
KingInCorner ==
    <<<<14, 22>>, <<48, 32>>, <<5, 14>>, <<32, 24>>, <<6, 21>>, <<24, 16>>,
      <<4, 6>>, <<55, 47>>, <<6, 7>>, <<16, 9>>>>

\* d2d3 e7e5 e1d2 f8d6 d2e3 h7h6 e3e4 f7f6 e4f5 d6a3 f5g6 a3b2 g6g7 b2a1
\* g7h8 a7a6 c1h6 g8h6
KingOnLastRank ==
    <<<<11, 19>>, <<52, 36>>, <<4, 11>>, <<61, 43>>, <<11, 20>>,
      <<55, 47>>, <<20, 28>>, <<53, 45>>, <<28, 37>>, <<43, 16>>,
      <<37, 46>>, <<16, 9>>, <<46, 54>>, <<9, 0>>, <<54, 63>>, <<48, 40>>,
      <<2, 47>>, <<62, 47>>>>

Book ==
    {FoolsMate, ScholarsMate, LoydStalemate, EnPassant, CastleKingside,
     CastleKingTakesRook, PawnTakesPawn, KnightEnding, KnightShuffle,
     PawnBeforeKing, KingInCorner, KingOnLastRank}

\* the longest game the caller plays, in half-moves
MaxPly == 41

\* the move the caller would store for a move of a game: the engine keeps
\* castling on its move stack as the king's move to the g or c file
Stored(line, i) ==
    LET m == Move(line[i][1], line[i][2])
    IN  IF line \in {CastleKingTakesRook} /\ i = Len(line)
        THEN Move(m.from_square, m.to_square - 1)
        ELSE m

\* the next moves of the games that began with the moves on the move stack
BookMoves(b) ==
    LET n == Len(b.move_stack)
    IN  {Move(line[n + 1][1], line[n + 1][2]) :
            line \in {l \in Book :
                        /\ Len(l) > n
                        /\ n < MaxPly
                        /\ \A i \in 1 .. n : Stored(l, i) = b.move_stack[i]}}

\* moves of the table that are legal in no position of the repertoire:
\* a1a1 and e2e5
IllegalProbes == {Move(0, 0), Move(12, 36)}

\* indices that are not in the table: below it, the first and the last of
\* the declared action space that the table does not hold, and beyond it
InvalidActions == {0 - 1, 4096, 4671, 9999}

Candidates(b, mta) ==
    {mta[m] : m \in BookMoves(b) \cup IllegalProbes} \cup InvalidActions

(***************************************************************************)
(* The state machine.                                                      *)
(***************************************************************************)

VARIABLES
    board,                \* self.board
    current_player,       \* self.current_player
    illegal_moves_count,  \* self.illegal_moves_count
    done,                 \* self.done
    move_to_action,       \* self.move_to_action
    action_to_move,       \* self.action_to_move
    call,                 \* the last call made: [op, action]
    ret                   \* what the last call handed back

vars ==
    <<board, current_player, illegal_moves_count, done, move_to_action,
      action_to_move, call, ret>>

\* ChessEnv.__init__
Init ==
    /\ board = StartBoard
    /\ move_to_action = get_move_to_action(generate_all_moves)
    /\ action_to_move = get_action_to_move(move_to_action)
    /\ current_player = TRUE
    /\ illegal_moves_count = 0
    /\ done = FALSE
    /\ call = [op |-> "init", action |-> 0]
    /\ ret = NoResult

\* a call of step(action)
Step(action) ==
    \E r \in {step(board, current_player, illegal_moves_count, action_to_move, action)} :
        /\ board' = r.board
        /\ current_player' = r.current_player
        /\ illegal_moves_count' = r.illegal_moves_count
        /\ ret' = r.ret
        /\ call' = [op |-> "step", action |-> action]
        /\ UNCHANGED <<done, move_to_action, action_to_move>>

\* a call of reset()
Reset ==
    \E r \in {reset(board, current_player, illegal_moves_count)} :
        /\ board' = r.board
        /\ current_player' = r.current_player
        /\ illegal_moves_count' = r.illegal_moves_count
        /\ ret' = r.ret
        /\ call' = [op |-> "reset", action |-> 0]
        /\ UNCHANGED <<done, move_to_action, action_to_move>>

Next ==
    \/ \E action \in Candidates(board, move_to_action) : Step(action)
    \/ Reset

Spec == Init /\ [][Next]_vars

(***************************************************************************)
(* Properties.  A property of a call is stated on the step of the state    *)
(* machine that makes it: the unprimed variables are the environment       *)
(* before the call, call' and ret' the call and what it handed back.       *)
(***************************************************************************)

\* the position is a stalemate or has insufficient material
Drawn(b) == is_stalemate(b) \/ is_insufficient_material(b)

\* the step about to be taken is a call of step with an index of the table
DecodableStep == call'.op = "step" /\ call'.action \in DOMAIN action_to_move

\* the move the call of step submits
Submitted == action_to_move[call'.action]

\* the environment's position, current player and counter are left as they were
EpisodeUnchanged == UNCHANGED <<board, current_player, illegal_moves_count>>

\* C1: a call of step with an index of the table whose move is not legal in
\* the current position, when the position is not drawn and the counter is
\* not above the threshold, leaves the position and the current player as
\* they were, adds exactly 1 to the illegal-move counter and returns reward
\* -0.1, terminated false and the reason "illegal move".
C1_IllegalMove ==
    [][(/\ DecodableStep
        /\ ~Drawn(board)
        /\ illegal_moves_count <= Max(5, board.fullmove_number \div 2)
        /\ ~is_legal(board, Submitted))
       => /\ board' = board
          /\ current_player' = current_player
          /\ illegal_moves_count' = illegal_moves_count + 1
          /\ ret'.kind = "return"
          /\ ret'.reward = 0 - 39
          /\ ret'.terminated = FALSE
          /\ ret'.info.reason = "illegal move"]_vars

\* an illegal move has just been penalised in a game under way, black to move
C1_Witness ==
    /\ call.op = "step"
    /\ ret.kind = "return"
    /\ ret.info.reason = "illegal move"
    /\ illegal_moves_count >= 2
    /\ Len(board.move_stack) >= 3
    /\ current_player = FALSE

\* C2: after a call of reset the position is the starting position, the
\* current player is white and the illegal-move counter is 0.
C2_ResetClearsCounter ==
    call.op = "reset"
        => /\ board = StartBoard
           /\ current_player = TRUE
           /\ illegal_moves_count = 0

\* C3: a call of step with an index that is not in the table raises
\* ValueError and leaves position, current player and counter as they were,
\* whatever the state of the episode.
C3_InvalidAction ==
    [][(call'.op = "step" /\ call'.action \notin 0 .. 4095)
       => /\ ret'.kind = "raise"
          /\ ret'.exception = "ValueError"
          /\ EpisodeUnchanged]_vars

\* the last index of the declared action space has just been refused in an
\* episode whose counter is above the threshold
C3_Witness ==
    /\ call.op = "step"
    /\ call.action = 4671
    /\ ret.exception = "ValueError"
    /\ illegal_moves_count > Max(5, board.fullmove_number \div 2)

\* C4: in a position that is not drawn, a call of step with an index of the
\* table returns reward -1, terminated true and the reason "too many illegal
\* moves", leaving position, current player and counter as they were, when
\* the counter is above max(5, fullmove_number // 2), whether or not the move
\* is legal; when the counter is not above it, the call does not end for
\* that reason.
C4_Threshold ==
    [][(DecodableStep /\ ~Drawn(board))
       => IF illegal_moves_count > Max(5, board.fullmove_number \div 2)
          THEN /\ ret'.kind = "return"
               /\ ret'.reward = 0 - 390
               /\ ret'.terminated = TRUE
               /\ ret'.info.reason = "too many illegal moves"
               /\ EpisodeUnchanged
          ELSE ret'.info.reason # "too many illegal moves"]_vars

\* a legal move has just been refused for too many illegal moves in a game
\* long enough for the threshold to be above 5
C4_Witness ==
    /\ call.op = "step"
    /\ ret.info.reason = "too many illegal moves"
    /\ board.fullmove_number >= 12
    /\ call.action \in DOMAIN action_to_move
    /\ is_legal(board, action_to_move[call.action])

\* a penalised illegal move at the threshold of a long game: the counter was
\* 6 when the call was made, and the game went on
C4_WitnessAtThreshold ==
    /\ call.op = "step"
    /\ ret.info.reason = "illegal move"
    /\ ret.info.illegal_moves = 6

\* the call of step about to be made pushes a legal move
LegalStep ==
    /\ DecodableStep
    /\ ~Drawn(board)
    /\ illegal_moves_count <= threshold(board)
    /\ is_legal(board, Submitted)

\* C5: when step applies a legal move that checkmates the opponent and
\* returns, the term compute_reward added for the end of the game is +1.
C5_CheckmateIsAWin ==
    [][(LegalStep /\ is_checkmate(board') /\ ret'.kind = "return")
       => ret'.terms.terminal = 390]_vars

\* the material value of the piece a move captures in position b, in 390ths:
\* the piece on the to-square, or the pawn taken en passant
CapturedValue(b, m) ==
    IF b.pieces[m.to_square].piece_type # 0 /\ ~is_castling(b, m)
    THEN capture_values(lower(symbol(b.pieces[m.to_square])))
    ELSE IF is_en_passant(b, m) THEN 39
    ELSE 0

\* C6: for every legal move step applies, reward_for_capture returns the
\* material value of the piece captured, and 0 when nothing was captured.
C6_CaptureReward ==
    [][LegalStep
       => /\ ret'.kind = "return"
          /\ ret'.terms.capture = CapturedValue(board, Submitted)]_vars

\* C6, captures only: a move that takes a piece on its to-square is rewarded
\* with that piece's value
C6_CaptureRewardOfCaptures ==
    [][(LegalStep /\ ret'.kind = "return"
          /\ board.pieces[Submitted.to_square].piece_type # 0
          /\ ~is_castling(board, Submitted))
       => ret'.terms.capture = CapturedValue(board, Submitted)]_vars

\* C7: in a position that is already a stalemate or has insufficient
\* material, a call of step with an index of the table returns reward 0.5
\* and terminated true and leaves position, current player and counter as
\* they were, whatever the counter.
C7_DrawShortCircuit ==
    [][(DecodableStep /\ Drawn(board))
       => /\ ret'.kind = "return"
          /\ ret'.reward = 195
          /\ ret'.terminated = TRUE
          /\ ret'.info.reason = "draw"
          /\ EpisodeUnchanged]_vars

\* the draw short-circuit has just answered in a stalemate
C7_Witness ==
    /\ call.op = "step"
    /\ ret.info.reason = "draw"
    /\ is_stalemate(board)
    /\ illegal_moves_count > 0

\* the draw short-circuit has just answered with insufficient material
C7_WitnessInsufficient ==
    /\ call.op = "step"
    /\ ret.info.reason = "draw"
    /\ ret.info.draw_reason = "insufficient_material"

\* in a drawn position the counter is never above the threshold
C7_NeverBoth ==
    Drawn(board) => illegal_moves_count <= threshold(board)

\* C8: in a fresh episode (the call before was the constructor or reset) an
\* illegal move is the first of six penalised ones: it returns reward -0.1,
\* terminated false, and the counter becomes 1.
C8_FreshEpisode ==
    [][(/\ call.op \in {"init", "reset"}
        /\ DecodableStep
        /\ ~is_legal(board, Submitted))
       => /\ ret'.reward = 0 - 39
          /\ ret'.terminated = FALSE
          /\ illegal_moves_count' = 1]_vars

\* C8, the episode after the constructor and every step of an episode: an
\* illegal move in a position that is not drawn leaves the position and its
\* threshold as they were, and is penalised with the counter going up by 1
\* until the counter is above the threshold, and then ends the episode with
\* reward -1; the counter of an episode begun by the constructor stops at
\* the threshold plus 1.
C8_IllegalMovesEnd ==
    [][(DecodableStep /\ ~Drawn(board) /\ ~is_legal(board, Submitted))
       => /\ board' = board
          /\ IF illegal_moves_count <= Max(5, board.fullmove_number \div 2)
             THEN /\ ret'.reward = 0 - 39
                  /\ ret'.terminated = FALSE
                  /\ illegal_moves_count' = illegal_moves_count + 1
             ELSE /\ ret'.reward = 0 - 390
                  /\ ret'.terminated = TRUE
                  /\ illegal_moves_count' = illegal_moves_count]_vars

\* C9: the move tables built at construction are exact inverses over 4096
\* entries, the move from square f to square t having index 64 * f + t, and
\* no step or reset changes either table.
C9_MoveTables ==
    /\ DOMAIN action_to_move = 0 .. 4095
    /\ DOMAIN move_to_action = {Move(f, t) : f \in 0 .. 63, t \in 0 .. 63}
    /\ \A f \in 0 .. 63, t \in 0 .. 63 :
           /\ move_to_action[Move(f, t)] = 64 * f + t
           /\ action_to_move[move_to_action[Move(f, t)]] = Move(f, t)
    /\ \A i \in 0 .. 4095 : move_to_action[action_to_move[i]] = i
    /\ [][UNCHANGED <<move_to_action, action_to_move>>]_vars

\* the tables after a game, a refused index and a reset
C9_Witness ==
    /\ call.op = "reset"
    /\ illegal_moves_count > 0
    /\ action_to_move[796] = Move(12, 28)
    /\ move_to_action[Move(63, 63)] = 4095

\* the signed piece code of a square: pawn 1, knight 2, bishop 3, rook 4,
\* queen 5, king 6, positive for white, negative for black, 0 when empty
PieceCode(p) ==
    IF p.piece_type = 0 THEN 0
    ELSE IF p.color = WHITE THEN p.piece_type
    ELSE 0 - p.piece_type

\* C10: the observation every step and reset returns holds, in cell
\* (7 - rank(s), file(s)), the signed piece code of the piece on square s in
\* the position after the call, 0 for an empty square; it is an 8 x 8 grid of
\* values in -6 .. 6.
C10_Observation ==
    ret.kind = "return"
        => /\ DOMAIN ret.observation = 0 .. 7
           /\ \A r \in 0 .. 7 :
                  /\ DOMAIN ret.observation[r] = 0 .. 7
                  /\ \A c \in 0 .. 7 : ret.observation[r][c] \in (0 - 6) .. 6
           /\ \A s \in SQUARES :
                  ret.observation[7 - square_rank(s)][square_file(s)]
                      = PieceCode(board.pieces[s])

\* a capture has just been returned from: the board is not the starting one
C10_Witness ==
    /\ call.op = "step"
    /\ ret.kind = "return"
    /\ ret.info.reason = ""
    /\ Cardinality(piece_map(board)) < 32
    /\ ret.observation[7 - 4][3] = 1

\* the step about to be taken applies a legal move that takes an opponent
\* piece, on its to-square or en passant, and returns
CapturingStep ==
    /\ LegalStep
    /\ ret'.kind = "return"
    /\ \/ /\ board.pieces[Submitted.to_square].piece_type # 0
          /\ board.pieces[Submitted.to_square].color # board.turn
       \/ is_en_passant(board, Submitted)

\* the value of the piece the submitted move takes: pawn 1, knight and bishop
\* 3, rook 5, queen 9
TakenValue ==
    IF is_en_passant(board, Submitted) THEN 1
    ELSE material_values(lower(symbol(board.pieces[Submitted.to_square])))

\* C11: in the reward of a step that applies a legal move taking an opponent
\* piece of value v, the material-balance delta is +v/39 (10 * v in 390ths),
\* the balance being taken from the side of the player who made the move
\* before and after it.
C11_MaterialDeltaOfMover ==
    [][CapturingStep => ret'.terms.material = 10 * TakenValue]_vars

\* C11, as the code has it: the balance is taken from the side of the player
\* to move after the move, and the delta of a capture of value v is -v/39
C11_MaterialDeltaOfOpponent ==
    [][CapturingStep => ret'.terms.material = 0 - 10 * TakenValue]_vars

\* C11, the three deltas of a returning legal step are those of the player
\* who did not make the move
C11_DeltasOfOpponent ==
    [][(LegalStep /\ ret'.kind = "return")
       => /\ ret'.terms.material
                = calculate_material_balance(board', ~board.turn)
                  - calculate_material_balance(board, ~board.turn)
          /\ ret'.terms.central
                = calculate_central_control(board', ~board.turn)
                  - calculate_central_control(board, ~board.turn)
          /\ ret'.terms.position
                = ret'.terms.material + ret'.terms.central
                  + ret'.terms.king_safety]_vars

\* the rank one step toward the opponent from rank r, for the player c
Forward(c, r) == IF c = WHITE THEN r + 1 ELSE r - 1

\* the squares of the board one rank toward the opponent from c's king, on
\* the king's file and the files next to it
FrontSquares(b, c) ==
    LET k == king(b.pieces, c)
    IN  {s \in SQUARES :
            /\ square_rank(s) = Forward(c, square_rank(k))
            /\ Abs(square_file(s) - square_file(k)) <= 1}

\* king safety as it is described, in 390ths: -0.5 without a pawn of c on
\* the king's file, and 0.2 for each pawn of c on a front square
KingSafetyDescribed(b, c) ==
    LET k == king(b.pieces, c)
        own(s) == b.pieces[s] = Piece(PAWN, c)
    IN  (IF \E s \in SQUARES : square_file(s) = square_file(k) /\ own(s)
         THEN 0 ELSE 0 - 195)
        + 78 * Cardinality({s \in FrontSquares(b, c) : own(s)})

\* C12: in every position, for each player whose king is on the board,
\* calculate_king_safety returns -0.5 if the player has no pawn on the
\* king's file, plus 0.2 for each of the player's own pawns on the front
\* squares that are on the board; enemy pawns and squares off the board
\* count for nothing and nothing is raised.
C12_KingSafety ==
    \A c \in BOOLEAN :
        king(board.pieces, c) # NoSquare
            => calculate_king_safety(board, c) = Returns(KingSafetyDescribed(board, c))

\* C12, away from the edges: with the king off the a and h files and off the
\* last rank, and no enemy pawn on a front square, calculate_king_safety is
\* as described
C12_KingSafetyInside ==
    \A c \in BOOLEAN :
        LET k == king(board.pieces, c)
        IN  (/\ k # NoSquare
             /\ square_file(k) \in 1 .. 6
             /\ Forward(c, square_rank(k)) \in 0 .. 7
             /\ \A s \in FrontSquares(board, c) : board.pieces[s] # Piece(PAWN, ~c))
                => calculate_king_safety(board, c)
                       = Returns(KingSafetyDescribed(board, c))

\* C12, in play: the king-safety delta of a returning legal step is the
\* delta of the described value for the player to move after it
C12_KingSafetyDelta ==
    [][(LegalStep /\ ret'.kind = "return")
       => ret'.terms.king_safety
              = KingSafetyDescribed(board', board'.turn)
                - KingSafetyDescribed(board, board'.turn)]_vars

\* the white king stands on the last rank and a step has ended in the
\* IndexError of calculate_king_safety
C12_RaisedOnLastRank ==
    /\ ret.kind = "raise"
    /\ ret.exception = "IndexError"
    /\ square_rank(king(board.pieces, WHITE)) = 7

\* the last call was a step that returned terminated = true, and the call
\* about to be made is a step with an index of the table
StepAfterTerminal ==
    /\ call.op = "step"
    /\ ret.kind = "return"
    /\ ret.terminated = TRUE
    /\ DecodableStep

\* C13: once a step has returned terminated = true, the next step with an
\* index of the table, no reset coming between, also returns terminated =
\* true and does not change the position.
C13_TerminalAbsorbing ==
    [][StepAfterTerminal
       => /\ ret'.kind = "return"
          /\ ret'.terminated = TRUE
          /\ board' = board]_vars

\* C13, what does hold: the step after a terminal one returns and leaves the
\* position as it was, and it returns terminated = true when the episode
\* ended by a draw or by too many illegal moves
C13_TerminalPositionKept ==
    [][StepAfterTerminal
       => /\ ret'.kind = "return"
          /\ board' = board
          /\ (Drawn(board) \/ illegal_moves_count > threshold(board))
                => ret'.terminated = TRUE]_vars

\* C13, after checkmate: the step after the one that returned the mate is an
\* illegal move like any other while the counter is not above the threshold
C13_AfterCheckmate ==
    [][(StepAfterTerminal /\ is_checkmate(board)
          /\ illegal_moves_count <= threshold(board))
       => /\ ret'.terminated = FALSE
          /\ ret'.reward = illegal_move_penalty
          /\ illegal_moves_count' = illegal_moves_count + 1]_vars

\* a step has just been refused as an illegal move in a checkmate position
\* that an earlier step returned as terminal
C13_SteppedAfterCheckmate ==
    /\ call.op = "step"
    /\ is_checkmate(board)
    /\ ret.info.reason = "illegal move"
    /\ ret.terminated = FALSE

\* C14: after construction and after every call of reset and step the
\* current-player flag is the engine's side to move; a step that applies a
\* legal move flips the flag and the engine's turn once, together, and a
\* step that is an illegal move, a draw short-circuit, a threshold
\* termination or an invalid index leaves both as they were; reset makes
\* both white.
C14_PlayerIsSideToMove ==
    /\ [](current_player = board.turn)
    /\ [][call'.op = "step"
          => IF LegalStep
             THEN /\ current_player' = ~current_player
                  /\ board'.turn = ~board.turn
                  /\ Len(board'.move_stack) = Len(board.move_stack) + 1
             ELSE /\ current_player' = current_player
                  /\ board'.turn = board.turn
                  /\ board'.move_stack = board.move_stack]_vars
    /\ [][call'.op = "reset"
          => current_player' = WHITE /\ board'.turn = WHITE]_vars

\* black is to move after a legal move that step applied and returned from
C14_WitnessFlipped ==
    /\ call.op = "step"
    /\ ret.kind = "return"
    /\ ret.info.reason = ""
    /\ current_player = BLACK
    /\ board.turn = BLACK

\* black is to move after a legal move that step applied before raising
C14_WitnessFlippedRaising ==
    /\ call.op = "step"
    /\ ret.kind = "raise"
    /\ ret.exception = "AttributeError"
    /\ current_player = BLACK
    /\ board.turn = BLACK

=============================================================================
